---------------------------- MODULE Spec2Model ----------------------------
(***************************************************************************)
(* Model of crates/gpapi/src/portal/config.rs: the PortalConfig gateway    *)
(* selector (find_preferred_gateway, sort_gateways) and the retrieve_config *)
(* routine with its internal-host-detection step.                           *)
(*                                                                          *)
(* Sequences are 1-based here: index 1 is Rust's index 0.                   *)
(* A u32 is kept at its full width as two 16-bit limbs [hi, lo], compared   *)
(* lexicographically, so that u32::MAX = [65535, 65535] is a value of the   *)
(* model.                                                                   *)
(***************************************************************************)
EXTENDS Integers, Sequences, FiniteSets, TLC

VARIABLES
    pc,                \* position of the retrieve_config call
    portal,            \* the `portal` argument, a sequence of string pieces
    server,            \* remove_url_scheme(normalize_server(portal))
    dns,               \* the resolver's answers, IP -> name or DnsErr
    response,          \* what parse_gp_response made of the response
    res_xml,           \* the body read from the response
    doc,               \* the parsed Document
    external_gateway,  \* the local of that name
    pair,              \* index of the ip_info pair the loop is at
    parsed,            \* what parse_gateways was handed and what it returned
    result,            \* the Result of the call
    gateways,          \* PortalConfig.gateways of the returned config
    events,            \* the I/O events of the call, in order
    call               \* the last selector call on the returned config

vars == <<pc, portal, server, dns, response, res_xml, doc, external_gateway, pair,
          parsed, result, gateways, events, call>>

---------------------------------------------------------------------------
(* Bounds *)

\* longest gateway list a PortalConfig starts with in SelSpec
MaxGateways == 3

\* longest gateway list the gateway-list parser returns in Spec
MaxParsed == 2

---------------------------------------------------------------------------
(* u32 *)

U32(n) == [hi |-> n \div 65536, lo |-> n % 65536]

U32_MAX == [hi |-> 65535, lo |-> 65535]

U32Lt(a, b) == a.hi < b.hi \/ (a.hi = b.hi /\ a.lo < b.lo)

---------------------------------------------------------------------------
(* Gateway and PriorityRule *)

PriorityRule(name, priority) == [name |-> name, priority |-> priority]

Gateway(name, address, priority, rules) ==
    [name |-> name, address |-> address, priority |-> priority,
     priority_rules |-> rules]

\* Gateway::new(name, address)
GatewayNew(name, address) == Gateway(name, address, U32(0), <<>>)

Regions == {"US", "EU"}

RuleLists ==
    { <<>>,
      <<PriorityRule("US", U32(5))>>,
      <<PriorityRule("Any", U32(3))>>,
      <<PriorityRule("US", U32_MAX)>>,
      <<PriorityRule("US", U32(5)), PriorityRule("Any", U32(3))>> }

GatewayPool ==
    { Gateway(n, "gw.example", p, rs) :
        n \in {"gw1", "gw2"}, p \in {U32(1), U32(2)}, rs \in RuleLists }

ListsUpTo(S, n) == UNION { [1..k -> S] : k \in 0..n }

---------------------------------------------------------------------------
(* PortalConfig::find_preferred_gateway *)

RuleMatches(rule, region) == rule.name = region \/ rule.name = "Any"

\* the body of the inner loop; acc = [preferred, lowest_region_priority],
\* preferred = 0 is None, otherwise the index of the gateway referred to
RuleStep(acc, rule, g, region) ==
    IF RuleMatches(rule, region) /\ U32Lt(rule.priority, acc.lowest)
    THEN [preferred |-> g, lowest |-> rule.priority]
    ELSE acc

RECURSIVE ScanRules(_, _, _, _, _)
ScanRules(acc, rules, j, g, region) ==
    IF j > Len(rules) THEN acc
    ELSE ScanRules(RuleStep(acc, rules[j], g, region), rules, j + 1, g, region)

RECURSIVE ScanGateways(_, _, _, _)
ScanGateways(acc, gws, g, region) ==
    IF g > Len(gws) THEN acc
    ELSE ScanGateways(ScanRules(acc, gws[g].priority_rules, 1, g, region),
                      gws, g + 1, region)

\* min_by_key keeps the first of several equally minimum elements
MinByKeyStepLast(gws, best, i) ==
    IF U32Lt(gws[best].priority, gws[i].priority) THEN best ELSE i

MinByKeyStep(gws, best, i) ==
    IF U32Lt(gws[i].priority, gws[best].priority) THEN i ELSE best

RECURSIVE MinByKey(_, _, _)
MinByKey(gws, best, i) ==
    IF i > Len(gws) THEN best
    ELSE MinByKey(gws, MinByKeyStep(gws, best, i), i + 1)

\* the index of the gateway find_preferred_gateway returns a reference to
FindPreferredGateway(gws, region) ==
    LET acc == ScanGateways([preferred |-> 0, lowest |-> U32_MAX], gws, 1, region)
    IN  IF acc.preferred # 0 THEN acc.preferred ELSE MinByKey(gws, 1, 2)

---------------------------------------------------------------------------
(* PortalConfig::sort_gateways *)

\* .position(|gateway| gateway.name == name).unwrap()
Position(gws, name) ==
    CHOOSE i \in 1..Len(gws) :
        /\ gws[i].name = name
        /\ \A j \in 1..(i - 1) : gws[j].name # name

MoveToFront(s, i, j) ==
    <<s[j]>> \o SubSeq(s, 1, j - 1) \o SubSeq(s, j + 1, Len(s))

\* slice::swap
Swap(s, i, j) == [s EXCEPT ![i] = s[j], ![j] = s[i]]

SortedGateways(gws, region) ==
    LET preferred_gateway == gws[FindPreferredGateway(gws, region)]
        preferred_gateway_index == Position(gws, preferred_gateway.name)
    IN  Swap(gws, 1, preferred_gateway_index)

NoCall == [op |-> "none", region |-> "", before |-> <<>>, ret |-> 0]

\* a caller asks the returned config for its preferred gateway
FindPreferred(region) ==
    /\ pc = "returned"
    /\ call' = [op |-> "find", region |-> region, before |-> gateways,
                ret |-> FindPreferredGateway(gateways, region)]
    /\ UNCHANGED <<pc, portal, server, dns, response, res_xml, doc, external_gateway,
                   pair, parsed, result, gateways, events>>

\* a caller sorts the returned config
SortGateways(region) ==
    /\ pc = "returned"
    /\ gateways' = SortedGateways(gateways, region)
    /\ call' = [op |-> "sort", region |-> region, before |-> gateways,
                ret |-> FindPreferredGateway(gateways, region)]
    /\ UNCHANGED <<pc, portal, server, dns, response, res_xml, doc, external_gateway,
                   pair, parsed, result, events>>

---------------------------------------------------------------------------
(* Strings, options and the collaborators of retrieve_config *)

\* Option<T>: None is the empty sequence, Some(v) the one-element sequence
None == <<>>

Some(v) == <<v>>

Schemes == {"https://", "http://"}

\* the `portal` argument: a string cut into a scheme piece and a host piece
Portals == { <<"vpn.example">>, <<"https://", "vpn.example">>, <<"https://">> }

\* utils::normalize_server: prefixes https:// when the string has no scheme
\* and fails when what follows the scheme is no host
NormalizeServer(p) ==
    LET url == IF p # <<>> /\ Head(p) \in Schemes THEN p ELSE <<"https://">> \o p
    IN  IF Len(url) < 2 THEN None ELSE Some(url)

\* utils::remove_url_scheme
RemoveUrlScheme(url) == SelectSeq(url, LAMBDA piece : piece \notin Schemes)

Element(tag, text) == [tag |-> tag, text |-> text]

OptElement(tag, texts) == {<<>>} \cup { <<Element(tag, t)>> : t \in texts }

\* well-formed response bodies: a root element and the elements
\* retrieve_config reads, each present or not
XmlBodies ==
    { <<Element("policy", "")>> \o m \o a \o h \o a6 \o h6 :
        m  \in OptElement("internal-host-detection", {"yes"}),
        a  \in OptElement("ip-address", {"", "not-an-ip", "10.0.0.1"}),
        h  \in OptElement("host", {"", "vpn.example"}),
        a6 \in OptElement("ipv6-address", {"", "not-an-ip", "fd00::1"}),
        h6 \in OptElement("ipv6-host", {"", "vpn.example"}) }

MalformedBody == <<Element("<", "")>>

Bodies == XmlBodies \cup {<<>>, MalformedBody}

\* String::is_empty on the body
IsEmptyNever(body) == FALSE

IsEmpty(body) == Len(body) = 0

\* Document::parse: an empty or malformed text is a parse error
DocumentParse(body) ==
    IF body = <<>> \/ \E i \in 1..Len(body) : body[i].tag = "<"
    THEN None ELSE Some(body)

\* xml::get_child_text: the text of the first element of that name
GetChildText(d, tag) ==
    IF \E i \in 1..Len(d) : d[i].tag = tag
    THEN Some(d[CHOOSE i \in 1..Len(d) :
                  d[i].tag = tag /\ \A j \in 1..(i - 1) : d[j].tag # tag].text)
    ELSE None

IpLiterals == {"10.0.0.1", "fd00::1"}

\* str::parse::<IpAddr>
ParseIpAddr(s) == IF s \in IpLiterals THEN Some(s) ELSE None

DnsErr == "lookup failed"

DnsAnswers == {DnsErr, "vpn.example", "other.example"}

\* the statuses parse_gp_response reports an error with; 200 is a response
\* whose body could not be read
ErrorStatuses == {404, 403, 500, 200}

ReaderResults ==
    { [ok |-> TRUE, status |-> 200, reason |-> ""] }
    \cup { [ok |-> FALSE, status |-> s, reason |-> "reason"] : s \in ErrorStatuses }

NoResponse == [ok |-> FALSE, status |-> 0, reason |-> ""]

\* GpError::is_status_error: a client or server error status
IsStatusError(err) == err.status >= 400 /\ err.status <= 599

\* gateway lists the gateway-list parser returns
ParsedPool ==
    { Gateway("gw1", "gw.example", U32(1), <<>>),
      Gateway("gw2", "gw.example", U32(1), <<PriorityRule("US", U32(5))>>),
      Gateway("gw2", "gw.example", U32(2), <<PriorityRule("Any", U32(3))>>) }

ParserReturns == {None} \cup { Some(l) : l \in ListsUpTo(ParsedPool, MaxParsed) }

---------------------------------------------------------------------------
(* retrieve_config *)

ConfigError(msg, reason) == [type |-> "ConfigError", msg |-> msg, reason |-> reason]

NetworkError == [type |-> "NetworkError", msg |-> "", reason |-> ""]

OtherError(msg, reason) == [type |-> "anyhow", msg |-> msg, reason |-> reason]

Pending == [kind |-> "pending", error |-> OtherError("", "")]

Ok == [kind |-> "ok", error |-> OtherError("", "")]

Err(e) == [kind |-> "err", error |-> e]

Event(ev) == [ev |-> ev, pair |-> 0, hit |-> FALSE]

Lookup(i, hit) == [ev |-> "lookup", pair |-> i, hit |-> hit]

NoParse == [called |-> FALSE, flag |-> TRUE, ret |-> None]

Init ==
    /\ pc = "start"
    /\ portal \in Portals
    /\ dns \in [IpLiterals -> DnsAnswers]
    /\ server = <<>>
    /\ response = NoResponse
    /\ res_xml = <<>>
    /\ doc = <<>>
    /\ external_gateway = TRUE
    /\ pair = 0
    /\ parsed = NoParse
    /\ result = Pending
    /\ gateways = <<>>
    /\ events = <<>>
    /\ call = NoCall

\* lines 88-101: normalize the portal, strip the scheme, build the client
Prepare ==
    /\ pc = "start"
    /\ \E client_ok \in BOOLEAN :
         LET normalized == NormalizeServer(portal)
         IN  IF normalized = None \/ ~client_ok
             THEN /\ pc' = "failed"
                  /\ result' = Err(OtherError("setup", ""))
                  /\ UNCHANGED server
             ELSE /\ pc' = "post"
                  /\ server' = RemoveUrlScheme(normalized[1])
                  /\ UNCHANGED result
    /\ UNCHANGED <<portal, dns, response, res_xml, doc, external_gateway, pair,
                   parsed, gateways, events, call>>

\* lines 103-108: the POST; a transport failure is a NetworkError
SendPost ==
    /\ pc = "post"
    /\ events' = Append(events, Event("post"))
    /\ \E sent \in BOOLEAN :
         IF sent
         THEN pc' = "read" /\ UNCHANGED result
         ELSE pc' = "failed" /\ result' = Err(NetworkError)
    /\ UNCHANGED <<portal, server, dns, response, res_xml, doc, external_gateway,
                   pair, parsed, gateways, call>>

ResponseErrorAllConfig(err) ==
    IF err.status = 404
    THEN ConfigError("Config endpoint not found", "")
    ELSE ConfigError("", err.reason)

\* lines 110-121: the closure of or_else
ResponseError(err) ==
    IF err.status = 404
    THEN ConfigError("Config endpoint not found", "")
    ELSE IF IsStatusError(err)
         THEN OtherError("Portal config error: ", err.reason)
         ELSE ConfigError("", err.reason)

\* line 110: parse_gp_response yields the body or a GpError
ReadResponse ==
    /\ pc = "read"
    /\ \E r \in ReaderResults, body \in Bodies :
         /\ response' = r
         /\ IF r.ok
            THEN /\ res_xml' = body
                 /\ pc' = "check_empty"
                 /\ UNCHANGED result
            ELSE /\ body = <<>>
                 /\ pc' = "failed"
                 /\ result' = Err(ResponseError(r))
                 /\ UNCHANGED res_xml
    /\ UNCHANGED <<portal, server, dns, doc, external_gateway, pair, parsed,
                   gateways, events, call>>

\* lines 123-125
CheckEmpty ==
    /\ pc = "check_empty"
    /\ IF IsEmpty(res_xml)
       THEN /\ pc' = "failed"
            /\ result' = Err(ConfigError("Empty portal config response", ""))
       ELSE /\ pc' = "parse"
            /\ UNCHANGED result
    /\ UNCHANGED <<portal, server, dns, response, res_xml, doc, external_gateway,
                   pair, parsed, gateways, events, call>>

\* lines 127-129
ParseDocument ==
    /\ pc = "parse"
    /\ events' = Append(events, Event("parse_document"))
    /\ LET parsed_doc == DocumentParse(res_xml)
       IN  IF parsed_doc = None
           THEN /\ pc' = "failed"
                /\ result' = Err(ConfigError("parse error", ""))
                /\ UNCHANGED <<doc, external_gateway>>
           ELSE /\ pc' = "detect"
                /\ doc' = parsed_doc[1]
                /\ external_gateway' = TRUE
                /\ UNCHANGED result
    /\ UNCHANGED <<portal, server, dns, response, res_xml, pair, parsed,
                   gateways, call>>

\* line 132
DetectMarker ==
    /\ pc = "detect"
    /\ IF GetChildText(doc, "internal-host-detection") # None
       THEN pc' = "loop" /\ pair' = 1
       ELSE pc' = "gateways" /\ UNCHANGED pair
    /\ UNCHANGED <<portal, server, dns, response, res_xml, doc, external_gateway,
                   parsed, result, gateways, events, call>>

IpInfoReversed(d) ==
    << [ip_address |-> GetChildText(d, "ipv6-address"),
        host |-> GetChildText(d, "ipv6-host"), family |-> 6],
       [ip_address |-> GetChildText(d, "ip-address"),
        host |-> GetChildText(d, "host"), family |-> 4] >>

\* lines 133-136; family tells the two pairs apart in the event log
IpInfo(d) ==
    << [ip_address |-> GetChildText(d, "ip-address"),
        host |-> GetChildText(d, "host"), family |-> 4],
       [ip_address |-> GetChildText(d, "ipv6-address"),
        host |-> GetChildText(d, "ipv6-host"), family |-> 6] >>

\* lines 141-143: the pair is looked up when both are Some and non-empty and
\* the address parses
Examined(p) ==
    /\ p.ip_address # None
    /\ p.host # None
    /\ p.ip_address[1] # ""
    /\ p.host[1] # ""
    /\ ParseIpAddr(p.ip_address[1]) # None

ConfirmsAnyName(host_lookup, host) == host_lookup # DnsErr

\* lines 144-145: Ok(host_lookup) if host_lookup == *host
Confirms(host_lookup, host) == host_lookup # DnsErr /\ host_lookup = host

\* lines 140-156: one iteration of the loop over ip_info
ExaminePair ==
    /\ pc = "loop"
    /\ LET p == IpInfo(doc)[pair]
           looked_up == Examined(p)
           hit == looked_up /\ Confirms(dns[ParseIpAddr(p.ip_address[1])[1]], p.host[1])
       IN  /\ events' = IF looked_up THEN Append(events, Lookup(p.family, hit))
                        ELSE events
           /\ IF hit
              THEN /\ external_gateway' = FALSE
                   /\ pc' = "gateways"
                   /\ UNCHANGED pair
              ELSE /\ UNCHANGED external_gateway
                   /\ IF pair = 2
                      THEN pc' = "gateways" /\ UNCHANGED pair
                      ELSE pc' = "loop" /\ pair' = pair + 1
    /\ UNCHANGED <<portal, server, dns, response, res_xml, doc, parsed, result,
                   gateways, call>>

\* lines 160-163: the gateway-list parser is handed the flag
ParseGateways ==
    /\ pc = "gateways"
    /\ \E ret \in ParserReturns :
         parsed' = [called |-> TRUE, flag |-> external_gateway, ret |-> ret]
    /\ events' = Append(events, Event("parse_gateways"))
    /\ pc' = "assemble"
    /\ UNCHANGED <<portal, server, dns, response, res_xml, doc, external_gateway,
                   pair, result, gateways, call>>

WithoutFallback(gws, s) == gws

\* lines 169-171
WithFallback(gws, s) == IF gws = <<>> THEN <<GatewayNew(s, s)>> ELSE gws

\* lines 160-179: unwrap the parser's list, add the fallback gateway, return
\* the PortalConfig; the locals of the call are dropped
Assemble ==
    /\ pc = "assemble"
    /\ gateways' = WithFallback(IF parsed.ret = None THEN <<>> ELSE parsed.ret[1],
                                server)
    /\ result' = Ok
    /\ pc' = "returned"
    /\ res_xml' = <<>>
    /\ doc' = <<>>
    /\ pair' = 0
    /\ UNCHANGED <<portal, server, dns, response, external_gateway, parsed,
                   events, call>>

Next ==
    \/ Prepare
    \/ SendPost
    \/ ReadResponse
    \/ CheckEmpty
    \/ ParseDocument
    \/ DetectMarker
    \/ ExaminePair
    \/ ParseGateways
    \/ Assemble
    \/ \E region \in Regions : FindPreferred(region)
    \/ \E region \in Regions : SortGateways(region)

Spec == Init /\ [][Next]_vars

---------------------------------------------------------------------------
(* The selector on any returned config *)

\* a config retrieve_config returned from a response without the marker
SelInit ==
    /\ pc = "returned"
    /\ portal = <<"vpn.example">>
    /\ server = <<"vpn.example">>
    /\ dns = [ip \in IpLiterals |-> DnsErr]
    /\ response = [ok |-> TRUE, status |-> 200, reason |-> ""]
    /\ res_xml = <<>>
    /\ doc = <<>>
    /\ external_gateway = TRUE
    /\ pair = 0
    /\ gateways \in ListsUpTo(GatewayPool, MaxGateways) \ {<<>>}
    /\ parsed = [called |-> TRUE, flag |-> TRUE, ret |-> Some(gateways)]
    /\ result = Ok
    /\ events = <<Event("post"), Event("parse_document"), Event("parse_gateways")>>
    /\ call = NoCall

SelNext ==
    \/ \E region \in Regions : FindPreferred(region)
    \/ \E region \in Regions : SortGateways(region)

SelSpec == SelInit /\ [][SelNext]_vars

---------------------------------------------------------------------------
(* Helpers of the properties *)

\* the selector was called; call.before is the list it was called on
Called == call.op \in {"find", "sort"}

EventIndexes(ev) == { i \in 1..Len(events) : events[i].ev = ev }

RulesOf(gw) == { gw.priority_rules[j] : j \in 1..Len(gw.priority_rules) }

MatchingRules(gw, region) ==
    { r \in RulesOf(gw) : r.name = region \/ r.name = "Any" }

AllMatchingRules(gws, region) ==
    UNION { MatchingRules(gws[g], region) : g \in 1..Len(gws) }

\* the least priority among a non-empty set of rules
LeastPriority(rules) ==
    (CHOOSE r \in rules : \A q \in rules : ~U32Lt(q.priority, r.priority)).priority

OwnsRuleAt(gw, region, priority) ==
    \E r \in MatchingRules(gw, region) : r.priority = priority

CountIn(s, x) == Cardinality({ i \in 1..Len(s) : s[i] = x })

\* the pair (address element, host element) of a document confirms the host
PairConfirmed(d, address_tag, host_tag) ==
    \E i, j \in 1..Len(d) :
        /\ d[i].tag = address_tag
        /\ d[j].tag = host_tag
        /\ d[i].text # ""
        /\ d[j].text # ""
        /\ d[i].text \in IpLiterals
        /\ dns[d[i].text] = d[j].text

HasMarker(d) == \E i \in 1..Len(d) : d[i].tag = "internal-host-detection"

---------------------------------------------------------------------------
(* C1 *)

\* C1: every PortalConfig retrieve_config returns has a non-empty gateway
\* list, and sort_gateways keeps it non-empty; as returned (before any
\* selector call) the list is the parser's list when that is non-empty, and
\* otherwise exactly one gateway whose name and address are the
\* scheme-stripped server string.
C1_GatewaysNonEmpty ==
    pc = "returned" =>
        /\ result = Ok
        /\ gateways # <<>>
        /\ call.op = "none" =>
             IF parsed.ret = None \/ parsed.ret = Some(<<>>)
             THEN /\ Len(gateways) = 1
                  /\ gateways[1].name = server
                  /\ gateways[1].address = server
                  /\ server = SelectSeq(portal, LAMBDA piece : piece \notin Schemes)
             ELSE gateways = parsed.ret[1]

\* the parser returned none for a portal given with its scheme, the fallback
\* gateway was made and the list has been sorted since
C1_Witness ==
    /\ pc = "returned"
    /\ portal = <<"https://", "vpn.example">>
    /\ parsed.called
    /\ parsed.ret = None
    /\ call.op = "sort"
    /\ gateways = <<GatewayNew(<<"vpn.example">>, <<"vpn.example">>)>>

---------------------------------------------------------------------------
(* C2 *)

\* C2 (as claimed): when some rule matches the region, the gateway
\* find_preferred_gateway returns owns a matching rule whose priority is the
\* least over all matching rules, and no earlier gateway owns a matching rule
\* of that priority.
C2_LeastMatchingRuleWins ==
    (Called /\ AllMatchingRules(call.before, call.region) # {}) =>
        LET least == LeastPriority(AllMatchingRules(call.before, call.region))
        IN  /\ call.ret \in 1..Len(call.before)
            /\ OwnsRuleAt(call.before[call.ret], call.region, least)
            /\ \A g \in 1..(call.ret - 1) :
                 ~OwnsRuleAt(call.before[g], call.region, least)

---------------------------------------------------------------------------
(* C3 *)

\* C3: when no gateway has a rule for the region or "Any",
\* find_preferred_gateway returns the gateway of least baseline priority,
\* the earliest in the list among those that share it.
C3_BaselineFallback ==
    (Called /\ AllMatchingRules(call.before, call.region) = {}) =>
        /\ call.ret \in 1..Len(call.before)
        /\ \A g \in 1..Len(call.before) :
             ~U32Lt(call.before[g].priority, call.before[call.ret].priority)
        /\ \A g \in 1..(call.ret - 1) :
             call.before[g].priority # call.before[call.ret].priority

\* three gateways, the last two share the least baseline priority, one of
\* them has a rule for another region, and the second was returned
C3_Witness ==
    /\ call.op = "find"
    /\ call.region = "EU"
    /\ Len(call.before) = 3
    /\ AllMatchingRules(call.before, "EU") = {}
    /\ \E g \in 1..3 : call.before[g].priority_rules # <<>>
    /\ call.before[1].priority = U32(2)
    /\ call.before[2].priority = U32(1)
    /\ call.before[3].priority = U32(1)
    /\ call.ret = 2

---------------------------------------------------------------------------
(* C4 *)

\* C4: sort_gateways exchanges the first position with one position k and
\* nothing else: every other position holds the gateway it held, the length
\* and the number of occurrences of each gateway are unchanged.
C4_SingleSwap ==
    call.op = "sort" =>
        /\ Len(gateways) = Len(call.before)
        /\ \E k \in 1..Len(call.before) :
             /\ gateways[1] = call.before[k]
             /\ gateways[k] = call.before[1]
             /\ \A i \in 1..Len(call.before) :
                  i \notin {1, k} => gateways[i] = call.before[i]
        /\ \A i \in 1..Len(call.before) :
             CountIn(gateways, call.before[i]) = CountIn(call.before, call.before[i])

\* three different gateways, the last one exchanged with the first: a
\* move-to-front would have put the first gateway in the middle
C4_Witness ==
    /\ call.op = "sort"
    /\ Len(call.before) = 3
    /\ Cardinality({ call.before[i] : i \in 1..3 }) = 3
    /\ gateways = <<call.before[3], call.before[2], call.before[1]>>

---------------------------------------------------------------------------
(* C5 *)

\* C5 (as claimed): after sort_gateways(R) the first gateway is the one
\* find_preferred_gateway(R) selected on the list before the call, and
\* sorting again with R changes nothing.
C5_PreferredIsFirst ==
    call.op = "sort" =>
        /\ gateways[1] = call.before[call.ret]
        /\ SortedGateways(gateways, call.region) = gateways

---------------------------------------------------------------------------
(* C6 *)

\* C6: the flag handed to the gateway-list parser is false exactly when the
\* document has the marker and the IPv4 pair or the IPv6 pair is non-empty,
\* has an address that is an IP literal, and resolves to the supplied host;
\* whatever the flag, the call does not fail once the document is parsed and
\* returns a PortalConfig.
C6_ExternalFlag ==
    /\ pc = "assemble" =>
         /\ parsed.called
         /\ parsed.flag = external_gateway
         /\ (parsed.flag = FALSE) <=>
              /\ HasMarker(doc)
              /\ \/ PairConfirmed(doc, "ip-address", "host")
                 \/ PairConfirmed(doc, "ipv6-address", "ipv6-host")
    /\ pc \in {"detect", "loop", "gateways", "assemble"} => result = Pending
    /\ pc = "returned" => parsed.called /\ result = Ok
    /\ pc = "failed" => ~parsed.called /\ doc = <<>>

\* the IPv4 lookup gave another name, the IPv6 lookup confirmed the host, and
\* the parser was handed false
C6_Witness ==
    /\ pc = "assemble"
    /\ parsed.flag = FALSE
    /\ ~PairConfirmed(doc, "ip-address", "host")
    /\ dns["10.0.0.1"] = "other.example"
    /\ events = <<Event("post"), Event("parse_document"), Lookup(4, FALSE),
                  Lookup(6, TRUE), Event("parse_gateways")>>

---------------------------------------------------------------------------
(* C7 *)

C7_EventsOrdered ==
    /\ events # <<>> => events[1].ev = "post"
    /\ Cardinality(EventIndexes("post")) <= 1
    /\ Cardinality(EventIndexes("lookup")) <= 2
    /\ \A i, j \in EventIndexes("lookup") :
         i < j => events[i].pair = 4 /\ events[j].pair = 6 /\ ~events[i].hit
    /\ \A i \in EventIndexes("lookup") :
         /\ \E j \in EventIndexes("parse_document") : j < i
         /\ \A j \in EventIndexes("parse_gateways") : i < j

C7_LookupStep ==
    /\ events' # events
    /\ events'[Len(events')].ev = "lookup"

\* C7: the POST is the first event and the only POST; a reverse lookup is made
\* only in a call whose response was read, whose body is non-empty and parsed
\* and has the marker; there are at most two lookups, IPv4 before IPv6, none
\* after a confirming one, and the gateway-list parser is called after them.
C7_EventOrder ==
    /\ []C7_EventsOrdered
    /\ [][C7_LookupStep =>
            /\ response.ok
            /\ res_xml # <<>>
            /\ DocumentParse(res_xml) = Some(doc)
            /\ HasMarker(doc)
            /\ external_gateway
            /\ ~parsed.called]_vars

\* both pairs were looked up, the IPv4 pair first and without confirmation,
\* and the parser was called afterwards
C7_Witness ==
    /\ Len(events) = 5
    /\ events[3] = Lookup(4, FALSE)
    /\ events[4].ev = "lookup"
    /\ events[4].pair = 6
    /\ events[5].ev = "parse_gateways"

---------------------------------------------------------------------------
(* C8 *)

\* C8 (as claimed): every error-status response makes retrieve_config fail
\* with a ConfigError, the one for "endpoint not found" on a 404.
C8_EveryStatusErrorIsConfigError ==
    (~response.ok /\ response.status >= 300) =>
        /\ result.kind = "err"
        /\ result.error.type = "ConfigError"
        /\ response.status = 404 => result.error.msg = "Config endpoint not found"
        /\ gateways = <<>>

\* C8 (amended): an error from the response reader makes retrieve_config fail
\* without a PortalConfig: a 404 gives ConfigError("Config endpoint not
\* found"), any other 4xx or 5xx status gives the generic error "Portal
\* config error: <reason>", which is no ConfigError, and an error with another
\* status gives a ConfigError carrying the reason.
C8_ResponseErrors ==
    (~response.ok /\ response # NoResponse) =>
        /\ pc = "failed"
        /\ result.kind = "err"
        /\ gateways = <<>>
        /\ ~parsed.called
        /\ IF response.status = 404
           THEN result.error = ConfigError("Config endpoint not found", "")
           ELSE IF response.status \in 400..599
                THEN /\ result.error.type = "anyhow"
                     /\ result.error.msg = "Portal config error: "
                     /\ result.error.reason = response.reason
                ELSE /\ result.error.type = "ConfigError"
                     /\ result.error.reason = response.reason

\* a 500 response ended the call with the generic error
C8_Witness ==
    /\ pc = "failed"
    /\ response.status = 500
    /\ result.error.type = "anyhow"
    /\ result.error.reason = "reason"

---------------------------------------------------------------------------
(* C9 *)

C9_EmptyBodyError == Err(ConfigError("Empty portal config response", ""))

\* C9: an empty body of a successful response ends the call with the
\* empty-response ConfigError at the emptiness check: nothing was parsed, no
\* lookup was made, the gateway-list parser was not called, and no
\* PortalConfig is returned then or later.
C9_EmptyBody ==
    /\ [][(pc = "check_empty" /\ Len(res_xml) = 0) =>
            /\ pc' = "failed"
            /\ result' = C9_EmptyBodyError
            /\ UNCHANGED <<events, gateways, parsed, doc>>]_vars
    /\ [](result = C9_EmptyBodyError =>
            /\ pc = "failed"
            /\ response.ok
            /\ res_xml = <<>>
            /\ EventIndexes("parse_document") = {}
            /\ EventIndexes("lookup") = {}
            /\ EventIndexes("parse_gateways") = {}
            /\ ~parsed.called
            /\ gateways = <<>>)
    /\ [][pc = "failed" => pc' = "failed" /\ UNCHANGED <<result, gateways>>]_vars

\* the response was read, its body was empty and the call has failed
C9_Witness ==
    /\ pc = "failed"
    /\ response.ok
    /\ res_xml = <<>>
    /\ result = C9_EmptyBodyError
    /\ events = <<Event("post")>>

---------------------------------------------------------------------------
(* C10 *)

\* C10 (as claimed): whatever the priorities of the rules, u32::MAX included,
\* a list in which some gateway has a rule for the region or "Any" yields a
\* gateway that owns such a rule.
C10_MatchingRuleNeverFallsBack ==
    (Called /\ AllMatchingRules(call.before, call.region) # {}) =>
        MatchingRules(call.before[call.ret], call.region) # {}

=============================================================================
